---- MODULE Spec2Model ----
(***************************************************************************)
(* Model of the interlanguage-link engine of update-interlanguage-links.py *)
(* (class Interlanguage) and of the helpers of ws/utils.py it relies on.   *)
(*                                                                         *)
(* Strings.  A title "Bar (Cesky)" is the sequence <<"Bar", "Cesky">>: its *)
(* first element is the text before the first language suffix and every    *)
(* further element is one " (...)" suffix.  "{} ({})".format(t, l) is      *)
(* Append(t, l), and detect_language splits the last suffix off again when *)
(* it is a language name.  The diacritics of the language names are left   *)
(* out ("Cesky").                                                          *)
(***************************************************************************)
EXTENDS Integers, Sequences, FiniteSets, TLC

VARIABLES
    redirects,      \* self.redirects: title -> redirect target (with fragment)
    allpages,       \* self.allpages: list of page dicts
    families,       \* self.families: family key -> list of pages
    family_index,   \* self.family_index: title -> family key
    stage,          \* "init" | "built" | "failed" (build_graph raised)
    res,            \* outcome of the last operation called on the object
    cachedb,        \* a CacheDb object (ws/cache)
    parser_cache,   \* a ParserCache object and the link tables of its database
    grabber         \* a GrabberRecentChanges.gen_update generator

vars == <<redirects, allpages, families, family_index, stage, res,
          cachedb, parser_cache, grabber>>

\* the objects the Interlanguage engine does not touch
others == <<cachedb, parser_cache, grabber>>

(***************************************************************************)
(* Bounds of the model.                                                    *)
(***************************************************************************)
\* pages the fetcher yields in one run
MaxPages == 3
\* nesting depth of _titles_in_family at which the model stops descending
MaxDepth == 3

(***************************************************************************)
(* Character order of the texts used in the model, ascending as Python     *)
(* compares strings (code points: upper case before lower case).           *)
(***************************************************************************)
AtomOrder ==
    <<"BAR", "Bar", "Baz", "Cesky", "Deutsch", "English", "Esperanto",
      "FiSH", "Fig", "Fish", "Foo", "Francais", "Old", "Qux", "bar", "fig", "fish",
      "foo", "old", "qux">>

AtomRankTable ==
    [a \in {AtomOrder[i] : i \in 1..Len(AtomOrder)} |->
        CHOOSE i \in 1..Len(AtomOrder) : AtomOrder[i] = a]

AtomRank(a) == AtomRankTable[a]

\* rank of a string of at most three parts; a proper prefix sorts first
StrRank(t) ==
    LET d(i) == IF i <= Len(t) THEN AtomRank(t[i]) ELSE 0
    IN  d(1) * 10000 + d(2) * 100 + d(3)

\* str.lower()
LowerAtom(a) ==
    CASE a \in {"BAR", "Bar", "bar"} -> "bar"
      [] a \in {"FiSH", "Fish", "fish"} -> "fish"
      [] a = "Fig" -> "fig"
      [] a = "Foo" -> "foo"
      [] a = "Old" -> "old"
      [] a = "Qux" -> "qux"
      [] OTHER -> a

lower(t) == [i \in 1..Len(t) |-> LowerAtom(t[i])]

\* title[0].upper() + title[1:]
UpperFirst(a) ==
    CASE a = "bar" -> "Bar"
      [] a = "fish" -> "Fish"
      [] a = "fig" -> "Fig"
      [] a = "foo" -> "Foo"
      [] a = "old" -> "Old"
      [] a = "qux" -> "Qux"
      [] OTHER -> a

\* parser_helpers.canonicalize: first letter capitalized (the texts of the
\* model hold no underscore and no outer whitespace)
canonicalize(t) == [i \in 1..Len(t) |-> IF i = 1 THEN UpperFirst(t[i]) ELSE t[i]]

(***************************************************************************)
(* Language Tag Oracle (ArchWiki.lang).                                    *)
(***************************************************************************)
LangNames == {"English", "Cesky", "Deutsch", "Francais", "Esperanto"}

Tags == {"en", "cs", "de", "fr", "eo"}

tag_for_langname(l) ==
    CASE l = "English" -> "en"
      [] l = "Cesky" -> "cs"
      [] l = "Deutsch" -> "de"
      [] l = "Francais" -> "fr"
      [] l = "Esperanto" -> "eo"

langname_for_tag(t) ==
    CASE t = "en" -> "English"
      [] t = "cs" -> "Cesky"
      [] t = "de" -> "Deutsch"
      [] t = "fr" -> "Francais"
      [] t = "eo" -> "Esperanto"

is_internal_tag(t) == t \in {"en", "cs"}

is_external_tag(t) == t \in {"de", "fr"}

is_interlanguage_tag(t) == is_internal_tag(t) \/ is_external_tag(t)

\* detect_language(title) -> <<pure title, language name>>
detect_language(t) ==
    IF Len(t) > 1 /\ t[Len(t)] \in LangNames
    THEN <<SubSeq(t, 1, Len(t) - 1), t[Len(t)]>>
    ELSE <<t, "English">>

\* tag of the language a full title is written in
TagOf(t) == tag_for_langname(detect_language(t)[2])

\* base title of a full title
BaseOf(t) == detect_language(t)[1]

(***************************************************************************)
(* ws/utils.py                                                             *)
(***************************************************************************)
\* ListOfDictsAttrWrapper(dict_list, "title")
wrapped(dict_list) == [i \in 1..Len(dict_list) |-> dict_list[i].title]

\* bisect.bisect_left(index_list, key), as a 0-based index
RECURSIVE bisect_left(_, _, _, _)
bisect_left(index_list, key, lo, hi) ==
    IF lo >= hi THEN lo
    ELSE LET mid == (lo + hi) \div 2
         IN  IF StrRank(index_list[mid + 1]) < StrRank(key)
             THEN bisect_left(index_list, key, mid + 1, hi)
             ELSE bisect_left(index_list, key, lo, mid)

\* bisect_find: the element found (and its 1-based place), or found = FALSE
\* where the code raises IndexError
bisect_find(data_list, key, index_list) ==
    LET i == bisect_left(index_list, key, 0, Len(index_list))
    IN  IF i # Len(index_list) /\ index_list[i + 1] = key
        THEN [found |-> TRUE, at |-> i + 1, elem |-> data_list[i + 1]]
        ELSE [found |-> FALSE]

\* list.insert(i, x), i 0-based
ListInsert(s, i, x) == SubSeq(s, 1, i) \o <<x>> \o SubSeq(s, i + 1, Len(s))

bisect_insert_or_replace(data_list, key, data_element, index_list) ==
    LET i == bisect_left(index_list, key, 0, Len(index_list))
    IN  IF i # Len(index_list) /\ index_list[i + 1] = key
        THEN [data_list EXCEPT ![i + 1] = data_element]
        ELSE ListInsert(data_list, i, data_element)

\* dict access helpers
HasKey(d, k) == k \in DOMAIN d

\* the keys of a page dict whose value is a dict, and those whose value is
\* a list; the value of every other key is a scalar
DictKeys == {"pageprops"}

ListKeys == {"langlinks"}

\* the list of the destination is replaced instead of extended
dmerge_list_replaced(source, destination) ==
    [k \in (DOMAIN source) \cup (DOMAIN destination) |->
        IF HasKey(source, k) THEN source[k] ELSE destination[k]]

\* dmerge(source, destination): the destination after the call.  A dict
\* value is merged into destination.setdefault(key, {}), a list value
\* extends destination.setdefault(key, []), a scalar overwrites
RECURSIVE dmerge(_, _)
dmerge(source, destination) ==
    [k \in (DOMAIN source) \cup (DOMAIN destination) |->
        IF ~HasKey(source, k) THEN destination[k]
        ELSE IF k \in DictKeys
        THEN dmerge(source[k], IF HasKey(destination, k) THEN destination[k]
                               ELSE [x \in {} |-> ""])
        ELSE IF k \in ListKeys
        THEN (IF HasKey(destination, k) THEN destination[k] ELSE <<>>) \o source[k]
        ELSE source[k]]

\* faulty variant: a sort that reverses the order of elements of equal key
StableSort_reversing(s, rank) ==
    LET n == Len(s)
        pos(i) == Cardinality({j \in 1..n :
                      \/ rank[j] < rank[i]
                      \/ rank[j] = rank[i] /\ j > i}) + 1
    IN  [p \in 1..n |-> s[CHOOSE i \in 1..n : pos(i) = p]]

\* list.sort(key=...): stable, ascending by the key's rank
StableSort(s, rank) ==
    LET n == Len(s)
        pos(i) == Cardinality({j \in 1..n :
                      \/ rank[j] < rank[i]
                      \/ rank[j] = rank[i] /\ j < i}) + 1
    IN  [p \in 1..n |-> s[CHOOSE i \in 1..n : pos(i) = p]]

(***************************************************************************)
(* Inputs: what the API can hand to one run.                               *)
(***************************************************************************)
Link(tag, text) == [lang |-> tag, star |-> text]

\* titles of the (non-redirect) pages the wiki may hold
PageTitles ==
    { <<"Bar">>, <<"Bar", "Cesky">>, <<"Bar", "Deutsch">>,
      <<"Foo", "Cesky">>, <<"Foo", "Deutsch">>, <<"Fish">> }

\* the "langlinks" property a page may carry
LinkLists ==
    { <<Link("en", <<"Fish">>)>>,
      <<Link("en", <<"Bar">>)>>,
      <<Link("cs", <<"bar">>)>>,
      <<Link("de", <<"Baz">>)>>,
      <<Link("fr", <<"Qux">>), Link("de", <<"Qux">>), Link("fr", <<"Baz">>)>>,
      <<Link("en", <<"Old">>)>>,
      <<Link("en", <<"Bar">>), Link("fr", <<"Baz">>)>> }

\* a page as the generator yields it; the API leaves "langlinks" out of a
\* page that declares none
PageDict(t, links) ==
    IF links = <<>> THEN [title |-> t]
    ELSE [title |-> t, langlinks |-> links]

\* api.redirects_map(): redirect title -> target, possibly with a fragment
RedirectTarget(t, f) == [page |-> t, fragment |-> f]

RedirectMaps ==
    { [t \in {<<"Old">>} |-> RedirectTarget(<<"Fish">>, "Section")],
      [t \in {<<"Old">>} |-> RedirectTarget(<<"Bar", "Cesky">>, "")] }

\* str.split("#", maxsplit=1)[0] of a redirect target
SplitFragment(target) == target.page

\* the pages of a set of titles as a list, last title first
RECURSIVE YieldOrder(_, _)
YieldOrder(S, links) ==
    IF S = {} THEN <<>>
    ELSE LET t == CHOOSE x \in S : \A y \in S : StrRank(y) <= StrRank(x)
         IN  <<PageDict(t, links[t])>> \o YieldOrder(S \ {t}, links)

(***************************************************************************)
(* Interlanguage._get_allpages                                             *)
(***************************************************************************)
\* one iteration of the loop over the generator's pages
get_allpages_step(pages, page) ==
    LET f == bisect_find(pages, page.title, wrapped(pages))
    IN  IF f.found
        THEN [pages EXCEPT ![f.at] = dmerge(page, f.elem)]
        ELSE bisect_insert_or_replace(pages, page.title, page, wrapped(pages))

RECURSIVE get_allpages(_, _)
get_allpages(yields, pages) ==
    IF yields = <<>> THEN pages
    ELSE get_allpages(Tail(yields), get_allpages_step(pages, Head(yields)))

(***************************************************************************)
(* Interlanguage._group_into_families                                      *)
(***************************************************************************)
\* faulty variant: the pages are not filtered by language
valid_interlanguage_page_all(page) == TRUE

valid_interlanguage_page(page) == is_interlanguage_tag(TagOf(page.title))

\* faulty variant: the key is case-sensitive in both passes
family_key_sensitive(page, case_sensitive) == BaseOf(page.title)

\* faulty variant: the key is lower-cased in both passes
family_key_insensitive(page, case_sensitive) == lower(BaseOf(page.title))

family_key(page, case_sensitive) ==
    IF case_sensitive THEN BaseOf(page.title) ELSE lower(BaseOf(page.title))

\* pages.sort(key=_family_key)
sort_by_family_key(pages, case_sensitive) ==
    StableSort(pages, [i \in 1..Len(pages) |-> StrRank(family_key(pages[i], case_sensitive))])

\* itertools.groupby: the maximal runs of consecutive pages with equal key
RECURSIVE groupby(_, _)
groupby(pages, case_sensitive) ==
    IF pages = <<>> THEN <<>>
    ELSE LET k == family_key(pages[1], case_sensitive)
             n == CHOOSE m \in 1..Len(pages) :
                    /\ \A i \in 1..m : family_key(pages[i], case_sensitive) = k
                    /\ m < Len(pages) => family_key(pages[m + 1], case_sensitive) # k
         IN  <<[key |-> k, pages |-> SubSeq(pages, 1, n)]>>
                 \o groupby(SubSeq(pages, n + 1, Len(pages)), case_sensitive)

\* dict.update
DictUpdate(d, e) ==
    [k \in (DOMAIN d) \cup (DOMAIN e) |-> IF k \in DOMAIN e THEN e[k] ELSE d[k]]

PageTags(pages) == {TagOf(pages[i].title) : i \in 1..Len(pages)}

EmptyDict == [k \in {} |-> <<>>]

RECURSIVE group_into_families(_, _)
RECURSIVE group_runs(_, _, _)

\* faulty variant: every run is accepted as one family, collision or not
group_runs_no_split(runs, fams, case_sensitive) ==
    [raised |-> FALSE,
     families |-> DictUpdate(fams,
        [k \in {runs[i].key : i \in 1..Len(runs)} |->
            runs[CHOOSE i \in 1..Len(runs) : runs[i].key = k].pages])]

\* faulty variant: a collision in a case-sensitive run is accepted instead of raising
RECURSIVE group_runs_no_raise(_, _, _)
group_runs_no_raise(runs, fams, case_sensitive) ==
    IF runs = <<>> THEN [raised |-> FALSE, families |-> fams]
    ELSE LET run == Head(runs)
         IN  IF Cardinality(PageTags(run.pages)) = Len(run.pages) \/ case_sensitive
             THEN group_runs_no_raise(Tail(runs),
                                      DictUpdate(fams, [k \in {run.key} |-> run.pages]),
                                      case_sensitive)
             ELSE group_runs_no_raise(Tail(runs),
                                      DictUpdate(fams, group_into_families(run.pages, TRUE).families),
                                      case_sensitive)

\* the loop over families_groups; raised = TRUE where the code raises
group_runs(runs, fams, case_sensitive) ==
    IF runs = <<>> THEN [raised |-> FALSE, families |-> fams]
    ELSE LET run == Head(runs)
         IN  IF Cardinality(PageTags(run.pages)) = Len(run.pages)
             THEN group_runs(Tail(runs), DictUpdate(fams, [k \in {run.key} |-> run.pages]),
                             case_sensitive)
             ELSE IF ~case_sensitive
             THEN LET sub == group_into_families(run.pages, TRUE)
                  IN  IF sub.raised THEN [raised |-> TRUE, families |-> fams]
                      ELSE group_runs(Tail(runs), DictUpdate(fams, sub.families),
                                      case_sensitive)
             ELSE [raised |-> TRUE, families |-> fams]

group_into_families(pages, case_sensitive) ==
    LET sorted == sort_by_family_key(pages, case_sensitive)
        groups == groupby(SelectSeq(sorted, valid_interlanguage_page), case_sensitive)
    IN  group_runs(groups, EmptyDict, case_sensitive)

(***************************************************************************)
(* Interlanguage.build_graph                                               *)
(***************************************************************************)
\* faulty variant: the index is left in the order of the family keys
sort_by_title_skipped(pages) == pages

\* self.allpages.sort(key=lambda page: page["title"])
sort_by_title(pages) ==
    StableSort(pages, [i \in 1..Len(pages) |-> StrRank(pages[i].title)])

FamilyTitles(fams, k) == {fams[k][i].title : i \in 1..Len(fams[k])}

\* self.family_index: every member page's title -> the key of its family
make_family_index(fams) ==
    [t \in UNION {FamilyTitles(fams, k) : k \in DOMAIN fams} |->
        CHOOSE k \in DOMAIN fams : t \in FamilyTitles(fams, k)]

\* the object's fields after build_graph on what the generator yielded
build_graph(yields) ==
    LET fetched == get_allpages(yields, <<>>)
        grouped == group_into_families(fetched, FALSE)
    IN  [raised |-> grouped.raised,
         \* _group_into_families sorted self.allpages in place by family key
         allpages |-> IF grouped.raised
                      THEN sort_by_family_key(fetched, FALSE)
                      ELSE sort_by_title(sort_by_family_key(fetched, FALSE)),
         \* self.families is not assigned when _group_into_families raises
         families |-> IF grouped.raised THEN EmptyDict ELSE grouped.families,
         family_index |-> IF grouped.raised THEN EmptyDict
                          ELSE make_family_index(grouped.families)]

(***************************************************************************)
(* Interlanguage._titles_in_family                                         *)
(***************************************************************************)
Range(f) == {f[i] : i \in DOMAIN f}

\* full title a (tag, title) pair stands for
full_title_of(tag, title) ==
    IF tag = "en" THEN title ELSE Append(title, langname_for_tag(tag))

\* faulty variant: the page is not looked up
is_valid_internal_no_lookup(tag, title) == is_internal_tag(tag)

\* full_title in self.wrapped_titles
is_valid_internal(tag, title) ==
    /\ is_internal_tag(tag)
    /\ full_title_of(tag, title) \in Range(wrapped(allpages))

title_from_langlink(langlink) ==
    LET langname == langname_for_tag(langlink.lang)
        title == IF langname = "English" THEN langlink.star
                 ELSE Append(langlink.star, langname)
    IN  IF is_internal_tag(langlink.lang)
        THEN IF canonicalize(title) \in DOMAIN redirects
             THEN SplitFragment(redirects[canonicalize(title)])
             ELSE canonicalize(title)
        ELSE title

\* the running (tags, titles) lists; src records, for each entry, the step
\* that appended it, the page it was read from and the raw link
EmptyLists == [tags |-> <<>>, titles |-> <<>>, src |-> <<>>]

append_entry(acc, tag, title, step, page_title, raw) ==
    [tags |-> Append(acc.tags, tag),
     titles |-> Append(acc.titles, title),
     src |-> Append(acc.src, [step |-> step, page |-> page_title, raw |-> raw])]

\* populate titles/tags with the already present pages
\* faulty variant: only the first page of the family is seeded
seed_pages_first_only(acc, family_pages, i) ==
    IF i > Len(family_pages) \/ i > 1 THEN acc
    ELSE append_entry(acc, TagOf(family_pages[i].title),
                      detect_language(family_pages[i].title)[1],
                      "seed", family_pages[i].title, <<>>)

RECURSIVE seed_pages(_, _, _)
seed_pages(acc, family_pages, i) ==
    IF i > Len(family_pages) THEN acc
    ELSE LET title == detect_language(family_pages[i].title)[1]
             tag == TagOf(family_pages[i].title)
         IN  IF tag \notin Range(acc.tags)
             THEN seed_pages(append_entry(acc, tag, title, "seed", family_pages[i].title, <<>>),
                             family_pages, i + 1)
             ELSE seed_pages(acc, family_pages, i + 1)

\* faulty variant: the last pull tests is_internal_tag instead of is_external_tag
condition_external_typo(kind, tag, title) ==
    CASE kind = "internal" -> is_valid_internal(tag, title)
      [] kind = "english" -> is_external_tag(tag) \/ is_valid_internal(tag, title)
      [] kind = "external" -> is_internal_tag(tag)

\* the condition lambdas handed to _pull_from_page
condition(kind, tag, title) ==
    CASE kind = "internal" -> is_valid_internal(tag, title)
      [] kind = "english" -> is_external_tag(tag) \/ is_valid_internal(tag, title)
      [] kind = "external" -> is_external_tag(tag)

\* page.get("langlinks", ())
get_langlinks_prop(page) == IF HasKey(page, "langlinks") THEN page.langlinks ELSE <<>>

\* faulty variant: the test "tag not in tags" is missing
RECURSIVE pull_links_no_tag_test(_, _, _, _, _)
pull_links_no_tag_test(acc, links, page_title, kind, i) ==
    IF i > Len(links) THEN acc
    ELSE LET tag == links[i].lang
             title == detect_language(title_from_langlink(links[i]))[1]
         IN  IF condition(kind, tag, title)
             THEN pull_links_no_tag_test(
                      append_entry(acc, tag, title, kind, page_title, links[i]),
                      links, page_title, kind, i + 1)
             ELSE pull_links_no_tag_test(acc, links, page_title, kind, i + 1)

RECURSIVE pull_links(_, _, _, _, _)
pull_links(acc, links, page_title, kind, i) ==
    IF i > Len(links) THEN acc
    ELSE LET tag == links[i].lang
             title == detect_language(title_from_langlink(links[i]))[1]
         IN  IF tag \notin Range(acc.tags) /\ condition(kind, tag, title)
             THEN pull_links(append_entry(acc, tag, title, kind, page_title, links[i]),
                             links, page_title, kind, i + 1)
             ELSE pull_links(acc, links, page_title, kind, i + 1)

pull_from_page(acc, page, kind) ==
    pull_links(acc, get_langlinks_prop(page), page.title, kind, 1)

\* for page in family_pages: _pull_from_page(page, condition=...)
RECURSIVE pull_from_pages(_, _, _, _)
pull_from_pages(acc, family_pages, kind, i) ==
    IF i > Len(family_pages) THEN acc
    ELSE pull_from_pages(pull_from_page(acc, family_pages[i], kind), family_pages, kind, i + 1)

\* list.index
IndexOf(s, x) == CHOOSE i \in 1..Len(s) : s[i] = x /\ \A j \in 1..(i - 1) : s[j] # x

\* outcome of a call that raised
Raised(master, exc) ==
    [op |-> "resolve", master |-> master, raised |-> exc,
     tags |-> <<>>, titles |-> <<>>, src |-> <<>>,
     had_english_early |-> FALSE, pulled_from_english |-> FALSE,
     branch |-> "raised", nested |-> <<>>]

\* faulty variant: the external pull from the family's pages is always done
finish_always_external(master, acc, had_english_early, pulled, branch, nested, family_pages) ==
    LET lists == pull_from_pages(acc, family_pages, "external", 1)
    IN  [op |-> "resolve", master |-> master, raised |-> "none",
         tags |-> lists.tags, titles |-> lists.titles, src |-> lists.src,
         had_english_early |-> had_english_early,
         pulled_from_english |-> pulled,
         branch |-> branch, nested |-> nested]

\* faulty variant: the external pull from the family's pages is never done
finish_never_external(master, acc, had_english_early, pulled, branch, nested, family_pages) ==
    [op |-> "resolve", master |-> master, raised |-> "none",
     tags |-> acc.tags, titles |-> acc.titles, src |-> acc.src,
     had_english_early |-> had_english_early,
     pulled_from_english |-> pulled,
     branch |-> branch, nested |-> nested]

\* the external pull when nothing was pulled from the English page, the
\* assertions, and the return
finish(master, acc, had_english_early, pulled, branch, nested, family_pages) ==
    LET lists == IF pulled THEN acc
                 ELSE pull_from_pages(acc, family_pages, "external", 1)
    IN  IF /\ TagOf(master) \in Range(lists.tags)
           /\ BaseOf(master) \in Range(lists.titles)
           /\ Len(lists.tags) = Len(lists.titles)
        THEN [op |-> "resolve", master |-> master, raised |-> "none",
              tags |-> lists.tags, titles |-> lists.titles, src |-> lists.src,
              had_english_early |-> had_english_early,
              pulled_from_english |-> pulled,
              branch |-> branch, nested |-> nested]
        ELSE Raised(master, "AssertionError")

RECURSIVE titles_in_family(_, _)

\* the three faulty variants of english_step: "and" for "or" in the test of line 322;
\* no test at all (the English page is always pulled from); the test of
\* line 314 negated for an English master
english_step_variant(master, depth, family_pages, had_english_early, acc, variant) ==
    IF "en" \notin Range(acc.tags)
    THEN finish(master, acc, had_english_early, FALSE, "no_english", <<>>, family_pages)
    ELSE LET en_title == acc.titles[IndexOf(acc.tags, "en")]
             en_page == bisect_find(allpages, en_title, wrapped(allpages))
         IN  IF ~en_page.found THEN Raised(master, "IndexError")
             ELSE IF IF variant = "direct_test"
                     THEN TagOf(master) # "en" /\ had_english_early
                     ELSE TagOf(master) = "en" \/ had_english_early
             THEN finish(master, pull_from_page(acc, en_page.elem, "english"),
                         had_english_early, TRUE, "direct", <<>>, family_pages)
             ELSE LET en == titles_in_family(en_title, depth + 1)
                  IN  IF en.raised # "none" THEN Raised(master, en.raised)
                      ELSE IF CASE variant = "and" ->
                                     /\ BaseOf(master) \in Range(en.titles)
                                     /\ TagOf(master) \notin Range(en.tags)
                                [] variant = "always" -> TRUE
                                [] OTHER ->
                                     \/ BaseOf(master) \in Range(en.titles)
                                     \/ TagOf(master) \notin Range(en.tags)
                      THEN finish(master, pull_from_page(acc, en_page.elem, "english"),
                                  had_english_early, TRUE, "merged",
                                  <<[master |-> en_title, branch |-> en.branch]>> \o en.nested,
                                  family_pages)
                      ELSE finish(master, acc, had_english_early, FALSE, "unmerged",
                                  <<[master |-> en_title, branch |-> en.branch]>> \o en.nested,
                                  family_pages)

english_step_and(master, depth, family_pages, had_english_early, acc) ==
    english_step_variant(master, depth, family_pages, had_english_early, acc, "and")

english_step_always(master, depth, family_pages, had_english_early, acc) ==
    english_step_variant(master, depth, family_pages, had_english_early, acc, "always")

english_step_direct_test(master, depth, family_pages, had_english_early, acc) ==
    english_step_variant(master, depth, family_pages, had_english_early, acc, "direct_test")

\* the part of _titles_in_family after the internal pull (lines 305-336);
\* nested lists the nested calls (master title, branch taken), outermost first
english_step(master, depth, family_pages, had_english_early, acc) ==
    IF "en" \notin Range(acc.tags)
    THEN finish(master, acc, had_english_early, FALSE, "no_english", <<>>, family_pages)
    ELSE LET en_title == acc.titles[IndexOf(acc.tags, "en")]
             en_page == bisect_find(allpages, en_title, wrapped(allpages))
         IN  IF ~en_page.found THEN Raised(master, "IndexError")
             ELSE IF TagOf(master) = "en" \/ had_english_early
             THEN finish(master, pull_from_page(acc, en_page.elem, "english"),
                         had_english_early, TRUE, "direct", <<>>, family_pages)
             ELSE LET en == titles_in_family(en_title, depth + 1)
                  IN  IF en.raised # "none" THEN Raised(master, en.raised)
                      ELSE IF \/ BaseOf(master) \in Range(en.titles)
                              \/ TagOf(master) \notin Range(en.tags)
                      THEN finish(master, pull_from_page(acc, en_page.elem, "english"),
                                  had_english_early, TRUE, "merged",
                                  <<[master |-> en_title, branch |-> en.branch]>> \o en.nested,
                                  family_pages)
                      ELSE finish(master, acc, had_english_early, FALSE, "unmerged",
                                  <<[master |-> en_title, branch |-> en.branch]>> \o en.nested,
                                  family_pages)

\* faulty variant: the internal links are pulled before the family's pages are seeded
titles_in_family_pull_first(master, depth) ==
    IF depth > MaxDepth THEN Raised(master, "RecursionError")
    ELSE IF master \notin DOMAIN family_index THEN Raised(master, "KeyError")
    ELSE LET family_pages == families[family_index[master]]
             pulled == pull_from_pages(EmptyLists, family_pages, "internal", 1)
             seeded == seed_pages(pulled, family_pages, 1)
         IN  english_step(master, depth, family_pages,
                          "en" \in PageTags(family_pages), seeded)

\* depth counts the frames of _titles_in_family on the stack
titles_in_family(master, depth) ==
    IF depth > MaxDepth THEN Raised(master, "RecursionError")
    ELSE IF master \notin DOMAIN family_index THEN Raised(master, "KeyError")
    ELSE LET family_pages == families[family_index[master]]
             seeded == seed_pages(EmptyLists, family_pages, 1)
         IN  english_step(master, depth, family_pages, "en" \in Range(seeded.tags),
                          pull_from_pages(seeded, family_pages, "internal", 1))

(***************************************************************************)
(* The state machine.                                                      *)
(***************************************************************************)
None == [op |-> "none"]

\* Interlanguage.__init__
\* CacheDb.__init__ with the class attributes meta = {} and data = None;
\* calls is the record of the load and update calls made so far and last
\* describes the latest access
NewCacheDb ==
    [data |-> "None", meta |-> <<>>, calls |-> <<>>,
     last |-> [op |-> "none", name |-> "", data_before |-> "None",
               calls_before |-> 0, raised |-> "none", result |-> "None"]]

\* ParserCache.__init__: an empty set of invalidated page ids; rows is the set
\* of page ids that own rows in the link tables, log the statements executed
\* by the latest update()
NewParserCache ==
    [invalidated_pageids |-> {}, rows |-> {}, log |-> <<>>, updates |-> 0,
     pass1 |-> {}, pass2 |-> {}, content |-> {}]

\* no gen_update generator has been created yet
NoGenerator ==
    [phase |-> "idle", since |-> "", rc_list |-> <<>>, le_list |-> <<>>,
     rcs |-> <<>>, les |-> <<>>, yielded |-> <<>>]

Init ==
    /\ redirects \in RedirectMaps
    /\ allpages = <<>>
    /\ families = EmptyDict
    /\ family_index = EmptyDict
    /\ stage = "init"
    /\ res = None
    /\ cachedb = NewCacheDb
    /\ parser_cache = NewParserCache
    /\ grabber = NoGenerator

\* build_graph() on the pages of some wiki
BuildGraph ==
    /\ stage = "init"
    /\ \E S \in SUBSET PageTitles :
         /\ Cardinality(S) <= MaxPages
         /\ \E links \in [S -> LinkLists \cup {<<>>}] :
              \E g \in {build_graph(YieldOrder(S, links))} :
                  /\ allpages' = g.allpages
                  /\ families' = g.families
                  /\ family_index' = g.family_index
                  /\ stage' = IF g.raised THEN "failed" ELSE "built"
    /\ UNCHANGED <<redirects, res>>
    /\ UNCHANGED others

\* self._titles_in_family(t)
Resolve ==
    /\ stage = "built"
    /\ res = None
    /\ \E t \in PageTitles : res' = titles_in_family(t, 1)
    /\ UNCHANGED <<redirects, allpages, families, family_index, stage>>
    /\ UNCHANGED others

\* the caller takes the outcome; the object is ready for the next call
Return ==
    /\ res # None
    /\ res' = None
    /\ UNCHANGED <<redirects, allpages, families, family_index, stage>>
    /\ UNCHANGED others

Next ==
    \/ BuildGraph
    \/ Resolve
    \/ Return

Spec == Init /\ [][Next]_vars

(***************************************************************************)
(* Interlanguage._get_langlinks, _needs_update and the update of a family  *)
(***************************************************************************)
\* the language tags in ascending string order
TagOrder == <<"cs", "de", "en", "eo", "fr">>

TagRank(tag) == CHOOSE i \in 1..Len(TagOrder) : TagOrder[i] = tag

\* sorted(interlinks, key=lambda t: t[0]) of a set of (tag, title) pairs
RECURSIVE sorted_by_tag(_)
sorted_by_tag(S) ==
    IF S = {} THEN <<>>
    ELSE LET x == CHOOSE x \in S : \A y \in S : TagRank(x[1]) <= TagRank(y[1])
         IN  <<x>> \o sorted_by_tag(S \ {x})

\* zip(tags, titles)
zip(tags, titles) == [i \in 1..Len(tags) |-> <<tags[i], titles[i]>>]

\* outcome of a call of _get_langlinks that raised
LanglinksRaised(full_title, exc) ==
    [op |-> "get_langlinks", title |-> full_title, raised |-> exc, links |-> <<>>]

\* the page's own pair is removed, but the pairs are left in the order in
\* which they were pulled
get_langlinks_unsorted(full_title) ==
    LET r == titles_in_family(full_title, 1)
        own == <<TagOf(full_title), BaseOf(full_title)>>
    IN  IF r.raised # "none" THEN LanglinksRaised(full_title, r.raised)
        ELSE [op |-> "get_langlinks", title |-> full_title, raised |-> "none",
              links |-> SelectSeq(zip(r.tags, r.titles), LAMBDA e : e # own)]

\* faulty variant: the pair removed holds the full title of the page
get_langlinks_full_title(full_title) ==
    LET r == titles_in_family(full_title, 1)
        interlinks == Range(zip(r.tags, r.titles))
        own == <<TagOf(full_title), full_title>>
    IN  IF r.raised # "none" THEN LanglinksRaised(full_title, r.raised)
        ELSE IF own \notin interlinks THEN LanglinksRaised(full_title, "KeyError")
        ELSE [op |-> "get_langlinks", title |-> full_title, raised |-> "none",
              links |-> sorted_by_tag(interlinks \ {own})]

\* _get_langlinks(full_title): set.remove raises KeyError for a missing pair
get_langlinks(full_title) ==
    LET r == titles_in_family(full_title, 1)
        interlinks == Range(zip(r.tags, r.titles))
        own == <<TagOf(full_title), BaseOf(full_title)>>
    IN  IF r.raised # "none" THEN LanglinksRaised(full_title, r.raised)
        ELSE IF own \notin interlinks THEN LanglinksRaised(full_title, "KeyError")
        ELSE [op |-> "get_langlinks", title |-> full_title, raised |-> "none",
              links |-> sorted_by_tag(interlinks \ {own})]

\* the (lang, *) pairs recorded on a page; none where page["langlinks"]
\* raises KeyError
langlinks_old(page) ==
    IF HasKey(page, "langlinks")
    THEN [i \in 1..Len(page.langlinks) |-> <<page.langlinks[i].lang, page.langlinks[i].star>>]
    ELSE <<>>

\* the recorded pairs are compared as a list
needs_update_as_lists(page, langlinks_new) == langlinks_new # langlinks_old(page)

\* _needs_update(page, langlinks_new)
needs_update(page, langlinks_new) == Range(langlinks_new) # Range(langlinks_old(page))

\* a page after its interlanguage links were rewritten to langlinks: the
\* API leaves "langlinks" out of a page that declares none
with_langlinks(page, langlinks) ==
    IF langlinks = <<>>
    THEN [k \in (DOMAIN page) \ {"langlinks"} |-> page[k]]
    ELSE [k \in (DOMAIN page) \cup {"langlinks"} |->
            IF k = "langlinks"
            THEN [i \in 1..Len(langlinks) |-> Link(langlinks[i][1], langlinks[i][2])]
            ELSE page[k]]

\* a list of pages after every page of the titles in links was rewritten
rewritten(pages, links) ==
    [i \in 1..Len(pages) |->
        IF pages[i].title \in DOMAIN links
        THEN with_langlinks(pages[i], links[pages[i].title])
        ELSE pages[i]]

\* self._get_langlinks(t)
GetLanglinks ==
    /\ stage = "built"
    /\ res = None
    /\ \E t \in PageTitles : res' = get_langlinks(t)
    /\ UNCHANGED <<redirects, allpages, families, family_index, stage>>
    /\ UNCHANGED others

\* _update_page on every page of one family (steps 3.4 and 3.5 of the
\* class docstring): each page's langlinks become what _get_langlinks
\* returned for it, and the pages are seen again with these links
UpdateFamily ==
    /\ stage = "built"
    /\ res = None
    /\ \E k \in DOMAIN families :
         \E outs \in {[t \in FamilyTitles(families, k) |-> get_langlinks(t)]} :
            /\ \A t \in DOMAIN outs : outs[t].raised = "none"
            /\ \E links \in {[t \in DOMAIN outs |-> outs[t].links]} :
                 /\ allpages' = rewritten(allpages, links)
                 /\ families' = [families EXCEPT ![k] = rewritten(families[k], links)]
                 /\ res' = [op |-> "update_family", family |-> k, links |-> links]
    /\ stage' = "updated"
    /\ UNCHANGED <<redirects, family_index>>
    /\ UNCHANGED others

NextUpdate ==
    \/ BuildGraph
    \/ GetLanglinks
    \/ UpdateFamily
    \/ Return

SpecUpdate == Init /\ [][NextUpdate]_vars

(***************************************************************************)
(* A wiki with titles that differ by case only, with a title that carries  *)
(* the suffix of the local language, with a page in a language without     *)
(* interlanguage links, and a generator that yields a page in pieces.      *)
(***************************************************************************)
\* pages of the wiki in one run of the set-wise builds
MaxCasePages == 4
\* partial results the generator yields in one run
MaxYields == 3

CaseTitles ==
    { <<"Fish">>, <<"FiSH">>, <<"Fish", "Cesky">>, <<"FiSH", "Cesky">>,
      <<"Bar">>, <<"Bar", "English">>, <<"Fig", "Esperanto">> }

CaseLinkLists == { <<>>, <<Link("en", <<"fish">>)>> }

\* the pieces in which the generator may yield the page titled t
Partial(t, n) ==
    CASE n = 1 -> [title |-> t, touched |-> "t1",
                   langlinks |-> <<Link("en", <<"fish">>)>>]
      [] n = 2 -> [title |-> t, touched |-> "t2",
                   langlinks |-> <<Link("cs", <<"FiSH">>)>>]
      [] n = 3 -> [title |-> t, pageprops |-> [a |-> "1"]]
      [] n = 4 -> [title |-> t, pageprops |-> [a |-> "2", b |-> "1"],
                   langlinks |-> <<Link("en", <<"fish">>)>>]
      [] OTHER -> [title |-> t]

PartialPages == {Partial(t, n) : t \in {<<"Fish">>, <<"FiSH">>}, n \in 1..5}

\* the sequences of at most n elements of S
SeqsUpTo(S, n) == UNION {[1..m -> S] : m \in 0..n}

\* langlinks_new handed to _needs_update
NewLinkLists ==
    { <<>>,
      << <<"en", <<"fish">>>> >>,
      << <<"en", <<"Fish">>>> >>,
      << <<"en", <<"fish">>>>, <<"cs", <<"FiSH">>>> >>,
      << <<"cs", <<"FiSH">>>>, <<"en", <<"fish">>>> >> }

\* the fields of the object after build_graph() on yields; the outcome
\* keeps what the generator yielded
Built(yields) ==
    \E g \in {build_graph(yields)} :
        /\ allpages' = g.allpages
        /\ families' = g.families
        /\ family_index' = g.family_index
        /\ stage' = IF g.raised THEN "failed" ELSE "built"
        /\ res' = [op |-> "build_graph", yields |-> yields]
        /\ UNCHANGED redirects
        /\ UNCHANGED others

\* build_graph() on a wiki of whole pages
BuildCaseGraph ==
    /\ stage = "init"
    /\ \E S \in SUBSET CaseTitles :
         /\ Cardinality(S) <= MaxCasePages
         /\ \E links \in [S -> CaseLinkLists] : Built(YieldOrder(S, links))

\* build_graph() with a generator that yields pages in pieces
BuildPartialGraph ==
    /\ stage = "init"
    /\ \E yields \in SeqsUpTo(PartialPages, MaxYields) : Built(yields)

\* faulty variant: the raw links are read with page.setdefault("langlinks",
\* []), which adds the key to the pages of the index that lack it
ResolveCase_setdefault ==
    /\ stage = "built"
    /\ res = None
    /\ \E t \in CaseTitles : res' = titles_in_family(t, 1)
    /\ allpages' = [i \in 1..Len(allpages) |->
                      IF HasKey(allpages[i], "langlinks") THEN allpages[i]
                      ELSE [k \in DOMAIN allpages[i] \cup {"langlinks"} |->
                              IF k = "langlinks" THEN <<>> ELSE allpages[i][k]]]
    /\ UNCHANGED <<redirects, families, family_index, stage>>
    /\ UNCHANGED others

\* self._titles_in_family(t)
ResolveCase ==
    /\ stage = "built"
    /\ res = None
    /\ \E t \in CaseTitles : res' = titles_in_family(t, 1)
    /\ UNCHANGED <<redirects, allpages, families, family_index, stage>>
    /\ UNCHANGED others

\* self._needs_update(page, langlinks_new)
NeedsUpdate ==
    /\ stage = "built"
    /\ res = None
    /\ \E i \in 1..Len(allpages), new \in NewLinkLists :
         res' = [op |-> "needs_update", page |-> allpages[i], langlinks_new |-> new,
                 result |-> needs_update(allpages[i], new)]
    /\ UNCHANGED <<redirects, allpages, families, family_index, stage>>
    /\ UNCHANGED others

\* the texts the second generator of update_allpages delivers: what
\* _update_page tests in a text is whether it holds a behavior switch or a
\* <noinclude> tag, and its block of interlanguage links
Markers == {"plain", "__NOTOC__", "<noinclude>"}

\* the page as update_allpages hands it over: the link block of its text
\* is the one the index recorded for the title
RevisionOf(t, marker) ==
    LET found == bisect_find(allpages, t, wrapped(allpages))
    IN  [title |-> t, marker |-> marker,
         interlinks |-> IF found.found THEN langlinks_old(found.elem) ELSE <<>>]

\* _update_interlanguage_links(text, langlinks, weak_update=False): the
\* extracted links are dropped and the header is rebuilt with langlinks
update_interlanguage_links(text, langlinks) ==
    [text EXCEPT !.interlinks = langlinks]

UpdateOutcome(page, outcome, raised, langlinks, edit) ==
    [op |-> "update_page", title |-> page.title, marker |-> page.marker,
     outcome |-> outcome, raised |-> raised, langlinks |-> langlinks, edit |-> edit]

\* what _update_page does once the language of the title is supported;
\* langlinks is the outcome of self._get_langlinks(title)
update_supported_page(page, langlinks) ==
    LET page_props == bisect_find(allpages, page.title, wrapped(allpages))
        text_old == [marker |-> page.marker, interlinks |-> page.interlinks]
        text_new == update_interlanguage_links(text_old, langlinks.links)
    IN  IF langlinks.raised # "none"
        THEN UpdateOutcome(page, "raised", langlinks.raised, langlinks, None)
        ELSE IF ~page_props.found
        THEN UpdateOutcome(page, "raised", "IndexError", langlinks, None)
        ELSE IF ~needs_update(page_props.elem, langlinks.links)
        THEN UpdateOutcome(page, "up_to_date", "none", langlinks, None)
        ELSE IF text_old # text_new
        THEN UpdateOutcome(page, "edited", "none", langlinks,
                           [op |-> "edit", text |-> text_new])
        ELSE UpdateOutcome(page, "same_text", "none", langlinks, None)

\* faulty variant: the test of the language of the title is missing
update_page_any_language(page, langlinks) ==
    IF page.marker = "__NOTOC__"
    THEN UpdateOutcome(page, "skipped_switch", "none", None, None)
    ELSE IF page.marker = "<noinclude>"
    THEN UpdateOutcome(page, "skipped_noinclude", "none", None, None)
    ELSE update_supported_page(page, langlinks)

\* _update_page(page)
update_page(page, langlinks) ==
    IF page.marker = "__NOTOC__"
    THEN UpdateOutcome(page, "skipped_switch", "none", None, None)
    ELSE IF page.marker = "<noinclude>"
    THEN UpdateOutcome(page, "skipped_noinclude", "none", None, None)
    ELSE IF ~is_interlanguage_tag(TagOf(page.title))
    THEN UpdateOutcome(page, "skipped_language", "none", None, None)
    ELSE update_supported_page(page, langlinks)

\* self._update_page(page) on a page of the second generator; the edit goes
\* to the wiki, the index is not touched
UpdatePage ==
    /\ stage = "built"
    /\ res = None
    /\ \E t \in CaseTitles, marker \in Markers :
         \E langlinks \in {get_langlinks(t)} :
            res' = update_page(RevisionOf(t, marker), langlinks)
    /\ UNCHANGED <<redirects, allpages, families, family_index, stage>>
    /\ UNCHANGED others

\* self._get_langlinks(t)
GetLanglinksCase ==
    /\ stage = "built"
    /\ res = None
    /\ \E t \in CaseTitles : res' = get_langlinks(t)
    /\ UNCHANGED <<redirects, allpages, families, family_index, stage>>
    /\ UNCHANGED others

NextCase ==
    \/ BuildCaseGraph
    \/ BuildPartialGraph
    \/ ResolveCase
    \/ NeedsUpdate
    \/ Return

SpecCase == Init /\ [][NextCase]_vars

\* pages of the wiki in one run of update_allpages
MaxUpdatePages == 3

\* build_graph() at the start of update_allpages
BuildForUpdate ==
    /\ stage = "init"
    /\ \E S \in SUBSET CaseTitles :
         /\ Cardinality(S) <= MaxUpdatePages
         /\ \E links \in [S -> CaseLinkLists] : Built(YieldOrder(S, links))

\* update_allpages: the graph is built, then pages are resolved and updated
\* one at a time
NextPage ==
    \/ BuildForUpdate
    \/ ResolveCase
    \/ GetLanglinksCase
    \/ UpdatePage
    \/ Return

SpecPage == Init /\ [][NextPage]_vars

(***************************************************************************)
(* ws.cache.CacheDb                                                        *)
(* The data is "None" or a token for the structure held; meta maps names   *)
(* to values.  calls lists the load and update calls in order, each with   *)
(* the data before and after it.                                           *)
(***************************************************************************)
\* accesses made in one run
MaxAccesses == 3

EmptyMeta == <<>>

\* dict.update(other) / dict[key] = value
MetaUpdate(meta, other) ==
    [k \in DOMAIN meta \cup DOMAIN other |->
        IF k \in DOMAIN other THEN other[k] ELSE meta[k]]

\* self.meta.get(name)
meta_get(meta, name) == IF name \in DOMAIN meta THEN meta[name] ELSE "None"

\* what load() may find on disk: no database file, or a file whose content
\* has the md5 sum md5_new, with or without a meta file
DiskStates ==
    { [db |-> FALSE, metafile |-> FALSE, meta |-> EmptyMeta, md5_new |-> "m1"],
      [db |-> TRUE, metafile |-> FALSE, meta |-> EmptyMeta, md5_new |-> "m1"],
      [db |-> TRUE, metafile |-> TRUE, md5_new |-> "m1",
       meta |-> [k \in {"md5", "timestamp"} |-> IF k = "md5" THEN "m1" ELSE "t0"]],
      [db |-> TRUE, metafile |-> TRUE, md5_new |-> "m1",
       meta |-> [k \in {"md5"} |-> "m2"]],
      [db |-> TRUE, metafile |-> TRUE, md5_new |-> "m1",
       meta |-> [k \in {"timestamp"} |-> "t0"]] }

\* what init() and update() of a subclass may do: fill the data, return
\* without touching it, or raise (the base class raises NotImplementedError)
SubclassOutcomes == {"fills", "returns", "raises"}

Called(db, fn, after) ==
    Append(db.calls, [fn |-> fn, data_before |-> db.data, data_after |-> after])

\* init(key) of the subclass, called by load()
init(db, outcome) ==
    CASE outcome = "fills" ->
           [db |-> [db EXCEPT !.data = "initialized",
                              !.meta = MetaUpdate(db.meta, [k \in {"timestamp"} |-> "t1"])],
            raised |-> "none"]
      [] outcome = "returns" -> [db |-> db, raised |-> "none"]
      [] OTHER -> [db |-> db, raised |-> "NotImplementedError"]

\* load(key)
load(db, disk, outcome) ==
    LET merged == MetaUpdate(db.meta, disk.meta)
        done ==
            IF ~disk.db THEN init(db, outcome)
            ELSE IF disk.metafile
            THEN IF disk.md5_new # meta_get(merged, "md5")
                 THEN [db |-> [db EXCEPT !.meta = merged], raised |-> "CacheDbError"]
                 ELSE [db |-> [db EXCEPT !.meta = merged, !.data = "loaded"],
                       raised |-> "none"]
            ELSE [db |-> [db EXCEPT !.meta = MetaUpdate(db.meta,
                                                [k \in {"md5"} |-> disk.md5_new]),
                                    !.data = "loaded"],
                  raised |-> "none"]
    IN  [db |-> [done.db EXCEPT !.calls = Called(db, "load", done.db.data)],
         raised |-> done.raised]

\* update(key) of the subclass
update(db, outcome) ==
    CASE outcome = "fills" ->
           [db |-> [db EXCEPT !.data = "updated",
                              !.meta = MetaUpdate(db.meta, [k \in {"timestamp"} |-> "t2"]),
                              !.calls = Called(db, "update", "updated")],
            raised |-> "none"]
      [] outcome = "returns" ->
           [db |-> [db EXCEPT !.calls = Called(db, "update", db.data)],
            raised |-> "none"]
      [] OTHER ->
           [db |-> [db EXCEPT !.calls = Called(db, "update", db.data)],
            raised |-> "NotImplementedError"]

\* faulty variant: load is called by every access
load_and_update_always(db, disk, load_outcome, update_outcome) ==
    LET loaded == load(db, disk, load_outcome)
    IN  IF loaded.raised # "none" THEN loaded
        ELSE update(loaded.db, update_outcome)

\* _load_and_update(key)
load_and_update(db, disk, load_outcome, update_outcome) ==
    LET loaded == IF db.data = "None" THEN load(db, disk, load_outcome)
                  ELSE [db |-> db, raised |-> "none"]
    IN  IF loaded.raised # "none" THEN loaded
        ELSE update(loaded.db, update_outcome)

\* the description of an access: the calls it made are the calls past
\* those made before
Accessed(before, kind, name, after, raised, result) ==
    [after EXCEPT !.last = [op |-> kind, name |-> name,
                            data_before |-> before.data,
                            calls_before |-> Len(before.calls),
                            raised |-> raised, result |-> result]]

\* __getitem__, __iter__, __reversed__, __contains__: _load_and_update, then
\* the same method of self.data
Accessors == {"__getitem__", "__iter__", "__reversed__", "__contains__"}

accessor(db, kind, disk, load_outcome, update_outcome) ==
    LET done == load_and_update(db, disk, load_outcome, update_outcome)
    IN  IF done.raised # "none"
        THEN Accessed(db, kind, "", done.db, done.raised, "None")
        ELSE IF done.db.data = "None"
        THEN Accessed(db, kind, "", done.db, "AttributeError", "None")
        ELSE Accessed(db, kind, "", done.db, "none", done.db.data)

Access ==
    /\ Len(cachedb.calls) < 2 * MaxAccesses
    /\ \E kind \in Accessors, disk \in DiskStates,
          load_outcome \in SubclassOutcomes, update_outcome \in SubclassOutcomes :
         cachedb' = accessor(cachedb, kind, disk, load_outcome, update_outcome)
    /\ UNCHANGED <<redirects, allpages, families, family_index, stage, res>>
    /\ UNCHANGED <<parser_cache, grabber>>

\* __len__: self.data.__len__()
LenAccess ==
    /\ cachedb' = Accessed(cachedb, "__len__", "", cachedb,
                           IF cachedb.data = "None" THEN "AttributeError" ELSE "none",
                           cachedb.data)
    /\ UNCHANGED <<redirects, allpages, families, family_index, stage, res>>
    /\ UNCHANGED <<parser_cache, grabber>>

\* names read as attributes that no instance or class attribute defines
MetaNames == {"md5", "timestamp", "unknown"}

\* __getattr__(name)
GetAttr ==
    /\ \E name \in MetaNames :
         cachedb' = Accessed(cachedb, "__getattr__", name, cachedb, "none",
                             meta_get(cachedb.meta, name))
    /\ UNCHANGED <<redirects, allpages, families, family_index, stage, res>>
    /\ UNCHANGED <<parser_cache, grabber>>

NextCache ==
    \/ Access
    \/ LenAccess
    \/ GetAttr

SpecCache == Init /\ [][NextCache]_vars

(***************************************************************************)
(* ws.db.parser_cache.ParserCache.update                                   *)
(* rows is the set of page ids that own rows in the link tables; log lists *)
(* what the latest update() did, in order; pass1 and pass2 are the pages   *)
(* the database held when each pass queried it, content the pages of pass2 *)
(* whose latest revision carries its text.                                 *)
(***************************************************************************)
\* update() calls in one run
MaxUpdates == 2

\* namespaces.keys()
Namespaces == <<-1, 0, 4>>

\* the namespace of every page id
PageNs == <<0, 4, 0, -1>>

PageIds == DOMAIN PageNs

\* self.db.query(generator="allpages", gapnamespace=ns): the pages of the
\* namespace, each once
query(pages, ns) ==
    SelectSeq([i \in PageIds |-> i], LAMBDA id : id \in pages /\ PageNs[id] = ns)

\* the loop over the namespaces, negative ones skipped, with the pages of
\* each namespace in turn
RECURSIVE pages_in_turn(_, _)
pages_in_turn(pages, n) ==
    IF n > Len(Namespaces) THEN <<>>
    ELSE IF Namespaces[n] < 0 THEN pages_in_turn(pages, n + 1)
    ELSE query(pages, Namespaces[n]) \o pages_in_turn(pages, n + 1)

\* _check_invalidation on every page of pass 1
check_invalidation(visited) ==
    [i \in 1..Len(visited) |-> [stmt |-> "add", pageid |-> visited[i]]]

\* faulty variant: pass 2 parses every page that has content
parse_step_all(id, invalidated, content) ==
    IF id \in content
    THEN <<[stmt |-> "parse", pageid |-> id]>>
    ELSE <<[stmt |-> "error", pageid |-> id]>>

\* the body of the loop of pass 2 for one page
parse_step(id, invalidated, content) ==
    IF id \in content
    THEN IF id \in invalidated THEN <<[stmt |-> "parse", pageid |-> id]>> ELSE <<>>
    ELSE <<[stmt |-> "error", pageid |-> id]>>

RECURSIVE parse_pages(_, _, _)
parse_pages(visited, invalidated, content) ==
    IF visited = <<>> THEN <<>>
    ELSE parse_step(Head(visited), invalidated, content)
            \o parse_pages(Tail(visited), invalidated, content)

\* update(): pass 1 on the pages pass1, pass 2 on the pages pass2
parser_cache_update(pc, pass1, pass2, content) ==
    LET visited1 == pages_in_turn(pass1, 1)
        invalidated == {visited1[i] : i \in 1..Len(visited1)}
        first == Append(check_invalidation(visited1),
                        [stmt |-> "delete", pageid |-> invalidated])
        second == parse_pages(pages_in_turn(pass2, 1), invalidated, content)
        parsed == {second[i].pageid : i \in {j \in 1..Len(second) : second[j].stmt = "parse"}}
    IN  [invalidated_pageids |-> invalidated,
         rows |-> (pc.rows \ invalidated) \cup parsed,
         log |-> first \o second,
         updates |-> pc.updates + 1,
         pass1 |-> pass1, pass2 |-> pass2, content |-> content]

ParserCacheUpdate ==
    /\ parser_cache.updates < MaxUpdates
    /\ \E pass1 \in SUBSET PageIds, pass2 \in SUBSET PageIds :
         \E content \in SUBSET pass2 :
            parser_cache' = parser_cache_update(parser_cache, pass1, pass2, content)
    /\ UNCHANGED <<redirects, allpages, families, family_index, stage, res>>
    /\ UNCHANGED <<cachedb, grabber>>

NextParserCache == ParserCacheUpdate

SpecParserCache == Init /\ [][NextParserCache]_vars

(***************************************************************************)
(* ws.db.grabbers.recentchanges.GrabberRecentChanges.gen_update            *)
(* A generator: phase is the loop it is suspended in, rc_list and le_list  *)
(* are what the API lists for the two queries, rcs and les what is left of *)
(* them, yielded the statements handed out so far.                         *)
(***************************************************************************)
\* recent changes and log events the API lists for one call
MaxChanges == 2
MaxEvents == 2

\* the timestamps gen_update may be given
Timestamps == {"t1", "t2"}

\* self.api.oldest_recent_change
oldest_recent_change == "t0"

RecentChanges == {[rcid |-> 1], [rcid |-> 2]}

LogEvents ==
    { [type |-> "patrol", action |-> "patrol", curid |-> 11],
      [type |-> "patrol", action |-> "autopatrol", curid |-> 12],
      [type |-> "delete", action |-> "delete", curid |-> 0] }

\* gen_inserts_from_rc(rc): one insert
gen_inserts_from_rc(rc) ==
    <<[stmt |-> "insert", rc_id |-> rc.rcid]>>

\* faulty variant: the action of the log event is not tested
gen_updates_from_le_any_action(logevent) ==
    IF logevent.type = "patrol"
    THEN <<[stmt |-> "update-patrolled", revid |-> logevent.curid]>>
    ELSE <<>>

\* gen_updates_from_le(logevent)
gen_updates_from_le(logevent) ==
    IF logevent.type = "patrol" /\ logevent.action = "patrol"
    THEN <<[stmt |-> "update-patrolled", revid |-> logevent.curid]>>
    ELSE <<>>

\* the purge of the rows older than the cutoff
delete_statement ==
    [stmt |-> "delete", rc_cutoff_timestamp |-> oldest_recent_change]

\* gen_update(since): the generator object, suspended before its first
\* statement
gen_update(since, rc_list, le_list) ==
    [phase |-> "rc", since |-> since, rc_list |-> rc_list, le_list |-> le_list,
     rcs |-> rc_list, les |-> le_list, yielded |-> <<>>]

\* one next() on the generator: it runs up to its next yield
RECURSIVE gen_next(_)
gen_next(g) ==
    IF g.phase = "rc"
    THEN IF g.rcs # <<>>
         THEN [g EXCEPT !.rcs = Tail(g.rcs),
                        !.yielded = g.yielded \o gen_inserts_from_rc(Head(g.rcs))]
         ELSE gen_next([g EXCEPT !.phase = "le"])
    ELSE IF g.phase = "le"
    THEN IF g.les # <<>>
         THEN IF gen_updates_from_le(Head(g.les)) # <<>>
              THEN [g EXCEPT !.les = Tail(g.les),
                             !.yielded = g.yielded \o gen_updates_from_le(Head(g.les))]
              ELSE gen_next([g EXCEPT !.les = Tail(g.les)])
         ELSE [g EXCEPT !.phase = "delete",
                        !.yielded = Append(g.yielded, delete_statement)]
    ELSE \* suspended at the last yield: StopIteration
         [g EXCEPT !.phase = "exhausted"]

GenUpdateCall ==
    /\ grabber.phase = "idle"
    /\ \E since \in Timestamps,
          rc_list \in SeqsUpTo(RecentChanges, MaxChanges),
          le_list \in SeqsUpTo(LogEvents, MaxEvents) :
         grabber' = gen_update(since, rc_list, le_list)
    /\ UNCHANGED <<redirects, allpages, families, family_index, stage, res>>
    /\ UNCHANGED <<cachedb, parser_cache>>

GenNext ==
    /\ grabber.phase \in {"rc", "le", "delete"}
    /\ grabber' = gen_next(grabber)
    /\ UNCHANGED <<redirects, allpages, families, family_index, stage, res>>
    /\ UNCHANGED <<cachedb, parser_cache>>

NextGrabber ==
    \/ GenUpdateCall
    \/ GenNext

SpecGrabber == Init /\ [][NextGrabber]_vars

(***************************************************************************)
(* Vocabulary of the properties.                                           *)
(***************************************************************************)
\* _titles_in_family was called on a title of the family index
ResolvedIndexed == res.op = "resolve" /\ res.master \in DOMAIN family_index

\* ... and returned
ResolvedOk == ResolvedIndexed /\ res.raised = "none"

\* the member pages of the family of the resolved title
MasterFamily == families[family_index[res.master]]

PageTitlesOf(pages) == {pages[i].title : i \in 1..Len(pages)}

\* the pages of the index whose title is t
PageOf(t) == CHOOSE i \in 1..Len(allpages) : allpages[i].title = t

\* the raw links of the page titled t, in order
LinksOf(t) == get_langlinks_prop(allpages[PageOf(t)])

NoDuplicates(s) == \A i, j \in 1..Len(s) : s[i] = s[j] => i = j

(***************************************************************************)
(* C1  Bijection invariant: for every title of the family index,           *)
(* _titles_in_family returns a tag list and a title list of equal length   *)
(* in which no tag occurs twice, whatever the raw langlinks, the redirects *)
(* and the families are.                                                   *)
(***************************************************************************)
C1_Bijection ==
    ResolvedIndexed =>
        /\ res.raised = "none"
        /\ Len(res.tags) = Len(res.titles)
        /\ NoDuplicates(res.tags)

\* a link was pulled although a later link of the same page declares the
\* same tag again, and three tags were gathered
C1_Witness ==
    /\ ResolvedOk
    /\ Len(res.tags) >= 3
    /\ \E i \in 1..Len(res.src) :
         /\ res.src[i].step # "seed"
         /\ \E k \in 1..Len(LinksOf(res.src[i].page)) :
              /\ LinksOf(res.src[i].page)[k].lang = res.tags[i]
              /\ LinksOf(res.src[i].page)[k] # res.src[i].raw

(***************************************************************************)
(* C2  The assertions at the end of _titles_in_family never fail for a     *)
(* title of the family index: the master's tag is among the tags and the   *)
(* master's base title among the titles that are returned.                 *)
(***************************************************************************)
C2_PostConditions ==
    ResolvedIndexed =>
        /\ res.raised # "AssertionError"
        /\ res.raised = "none" =>
             /\ TagOf(res.master) \in Range(res.tags)
             /\ BaseOf(res.master) \in Range(res.titles)

\* the master is not the first page of a family of several pages
C2_Witness ==
    /\ ResolvedOk
    /\ Len(MasterFamily) >= 2
    /\ MasterFamily[1].title # res.master

(***************************************************************************)
(* C3  Seed entries are never overridden: every member page of the         *)
(* master's family has its own tag mapped to its own base title in the     *)
(* result, whatever a raw langlink declares for that tag.                  *)
(***************************************************************************)
C3_SeedsKept ==
    ResolvedOk =>
        \A p \in PageTitlesOf(MasterFamily) :
            \E i \in 1..Len(res.tags) :
                /\ res.tags[i] = TagOf(p)
                /\ res.titles[i] = BaseOf(p)
                /\ res.src[i].step = "seed"

\* the English page of the family declares, in a link that would pass the
\* pull's condition, another title for the tag of another member page
C3_Witness ==
    /\ ResolvedOk
    /\ res.branch = "direct"
    /\ \E p \in PageTitlesOf(MasterFamily), q \in PageTitlesOf(MasterFamily) :
         /\ TagOf(q) = "en"
         /\ p # q
         /\ \E k \in 1..Len(LinksOf(q)) :
              /\ LinksOf(q)[k].lang = TagOf(p)
              /\ LinksOf(q)[k].star # BaseOf(p)
              /\ condition("english", LinksOf(q)[k].lang,
                           detect_language(title_from_langlink(LinksOf(q)[k]))[1])

Entries(r) == {<<r.tags[i], r.titles[i]>> : i \in 1..Len(r.tags)}

ExternalEntries(r) == {e \in Entries(r) : is_external_tag(e[1])}

\* tags of the member pages of the master's family
SeedTags == PageTags(MasterFamily)

\* title the bijection holds for "en"
EnTitle == res.titles[IndexOf(res.tags, "en")]

\* first declaration of each external tag in a list of raw links
FirstExternal(links) ==
    { <<links[k].lang, links[k].star>> :
        k \in {k \in 1..Len(links) :
                 /\ is_external_tag(links[k].lang)
                 /\ \A j \in 1..(k - 1) : links[j].lang # links[k].lang} }

\* the raw links of a list of pages, page after page
RECURSIVE WalkLinks(_)
WalkLinks(pages) ==
    IF pages = <<>> THEN <<>>
    ELSE get_langlinks_prop(Head(pages)) \o WalkLinks(Tail(pages))

\* "en" is in the result and came in through the internal pull
EnglishViaLink == ResolvedOk /\ ~res.had_english_early /\ "en" \in Range(res.tags)

\* the test of line 322 on the family of the English page
Compatible ==
    LET en == titles_in_family(EnTitle, 1)
    IN  \/ BaseOf(res.master) \in Range(en.titles)
        \/ TagOf(res.master) \notin Range(en.tags)

(***************************************************************************)
(* C5 as stated: when the master is English or an English page is a seed   *)
(* member, the external-tag entries of the result are exactly the external *)
(* links declared on the English page (first declaration per tag).         *)
(***************************************************************************)
C5_Original ==
    (ResolvedOk /\ res.had_english_early) =>
        ExternalEntries(res) = FirstExternal(LinksOf(EnTitle))

(***************************************************************************)
(* C5  amended: when the master is English or an English page is a seed    *)
(* member, the external-tag entries of the result are the family members'  *)
(* own entries (a member page written in an external language) and, for    *)
(* every other external tag, exactly the first declaration on the English  *)
(* page; no external link is taken from a non-English member.              *)
(***************************************************************************)
C5_ExternalFromEnglish ==
    (ResolvedOk /\ res.had_english_early) =>
        /\ {e \in ExternalEntries(res) : e[1] \notin SeedTags}
             = {d \in FirstExternal(LinksOf(EnTitle)) : d[1] \notin SeedTags}
        /\ \A i \in 1..Len(res.tags) :
             is_external_tag(res.tags[i]) =>
                \/ res.src[i].step = "seed"
                \/ res.src[i].step = "english" /\ res.src[i].page = EnTitle

\* the English seed page declares an external link, which is in the result,
\* and another member declares an external tag the English page does not,
\* which is not
C5_Witness ==
    /\ ResolvedOk
    /\ res.had_english_early
    /\ \E e \in ExternalEntries(res) : e[1] \notin SeedTags
    /\ \E p \in PageTitlesOf(MasterFamily) :
         /\ p # EnTitle
         /\ \E k \in 1..Len(LinksOf(p)) :
              /\ is_external_tag(LinksOf(p)[k].lang)
              /\ LinksOf(p)[k].lang \notin Range(res.tags)

(***************************************************************************)
(* C6  When "en" came in through the internal pull only and the master is  *)
(* not English, the English page is pulled from if and only if the         *)
(* master's base title is among the titles of the resolved English family  *)
(* or the master's tag is not among its tags; otherwise nothing is pulled  *)
(* from the English page and _pulled_from_english stays false.             *)
(***************************************************************************)
C6_BridgeTest ==
    EnglishViaLink =>
        /\ TagOf(res.master) # "en"
        /\ res.pulled_from_english <=> Compatible
        /\ ~res.pulled_from_english =>
             \A i \in 1..Len(res.src) : res.src[i].step # "english"
        /\ res.pulled_from_english =>
             \A k \in 1..Len(LinksOf(EnTitle)) :
                condition("english", LinksOf(EnTitle)[k].lang,
                          detect_language(title_from_langlink(LinksOf(EnTitle)[k]))[1])
                    => LinksOf(EnTitle)[k].lang \in Range(res.tags)

\* the families are judged incompatible and an external link of the English
\* page stays out of the result
C6_Witness ==
    /\ EnglishViaLink
    /\ ~res.pulled_from_english
    /\ \E k \in 1..Len(LinksOf(EnTitle)) :
         /\ is_external_tag(LinksOf(EnTitle)[k].lang)
         /\ LinksOf(EnTitle)[k].lang \notin Range(res.tags)

\* the families are judged compatible and an external link of the English
\* page is pulled
C6_WitnessMerged ==
    /\ EnglishViaLink
    /\ res.pulled_from_english
    /\ \E i \in 1..Len(res.src) :
         res.src[i].step = "english" /\ is_external_tag(res.tags[i])

(***************************************************************************)
(* Vocabulary of C7: two families citing one English title.                *)
(***************************************************************************)
\* some page of family k declares an "en" link that resolves to title e
Cites(k, e) ==
    \E i \in 1..Len(families[k]) :
        \E j \in 1..Len(get_langlinks_prop(families[k][i])) :
            LET link == get_langlinks_prop(families[k][i])[j]
            IN  /\ link.lang = "en"
                /\ detect_language(title_from_langlink(link))[1] = e

\* the master's family and family k both cite the English page in the
\* result, which is a member of neither
SharedEnglish(k) ==
    /\ EnglishViaLink
    /\ k \in DOMAIN families
    /\ k # family_index[res.master]
    /\ EnTitle \notin FamilyTitles(families, k)
    /\ EnTitle \notin PageTitlesOf(MasterFamily)
    /\ Cites(family_index[res.master], EnTitle)
    /\ Cites(k, EnTitle)

\* no link was read from the English page
NothingFromEnglish ==
    /\ ~res.pulled_from_english
    /\ \A i \in 1..Len(res.src) : res.src[i].step # "english"

(***************************************************************************)
(* C7 as stated: two independent families (neither with an English page   *)
(* of its own) cite the same English title, which is a seed member of      *)
(* neither, and no tag of one family is a tag of the other; then resolving *)
(* a page of either family takes no link from the English page nor from    *)
(* the other family.                                                       *)
(***************************************************************************)
C7_Original ==
    \A k \in DOMAIN families :
        (/\ SharedEnglish(k)
         /\ "en" \notin PageTags(families[k])
         /\ SeedTags \cap PageTags(families[k]) = {}) =>
            /\ NothingFromEnglish
            /\ \A i \in 1..Len(res.src) : res.src[i].page \notin FamilyTitles(families, k)

(***************************************************************************)
(* C7  amended: two independent families cite the same English title,      *)
(* which is a seed member of neither.  Resolving a page of either family   *)
(* takes no link from the English page when the resolved English family    *)
(* holds the master's tag but not the master's base title, and pulls from  *)
(* the English page otherwise; in both cases no link is read from a page   *)
(* of the other family.                                                    *)
(***************************************************************************)
C7_ConservativeNonMerge ==
    \A k \in DOMAIN families :
        SharedEnglish(k) =>
            /\ ~Compatible => NothingFromEnglish
            /\ Compatible => res.pulled_from_english
            /\ \A i \in 1..Len(res.src) :
                 /\ res.src[i].page \notin FamilyTitles(families, k)
                 /\ res.src[i].page \in PageTitlesOf(MasterFamily) \cup {EnTitle}

\* the families stay apart although the English page declares a link that
\* a pull would take
C7_Witness ==
    \E k \in DOMAIN families :
        /\ SharedEnglish(k)
        /\ NothingFromEnglish
        /\ \E j \in 1..Len(LinksOf(EnTitle)) :
             condition("english", LinksOf(EnTitle)[j].lang,
                       detect_language(title_from_langlink(LinksOf(EnTitle)[j]))[1])

(***************************************************************************)
(* C8  Recursion depth at most 2: a call of _titles_in_family makes at     *)
(* most one nested call, the nested call is on an English title (master    *)
(* tag "en"), takes the direct-pull branch and makes no further call.      *)
(***************************************************************************)
C8_DepthTwo ==
    res.op = "resolve" =>
        /\ res.raised # "RecursionError"
        /\ Len(res.nested) <= 1
        /\ \A i \in 1..Len(res.nested) :
             /\ TagOf(res.nested[i].master) = "en"
             /\ res.nested[i].branch = "direct"

\* a nested call was made
C8_Witness ==
    /\ ResolvedOk
    /\ Len(res.nested) = 1
    /\ res.nested[1].master # res.master

(***************************************************************************)
(* C9 as stated: if nothing was pulled from the English page, every        *)
(* external tag declared by a family member is in the result with the      *)
(* title of the first declaration met walking the family's pages in order; *)
(* if the English page was pulled from, no external link is taken from     *)
(* another page.                                                           *)
(***************************************************************************)
C9_Original ==
    ResolvedOk =>
        /\ ~res.pulled_from_english =>
             FirstExternal(WalkLinks(MasterFamily)) \subseteq Entries(res)
        /\ res.pulled_from_english =>
             \A i \in 1..Len(res.src) : res.src[i].step # "external"

(***************************************************************************)
(* C9  amended: if nothing was pulled from the English page, every         *)
(* external tag declared by a family member, other than the tag of a       *)
(* member page itself, is in the result with the title of the first        *)
(* declaration met walking the family's pages in order (a member page's    *)
(* own tag keeps the member's title); if the English page was pulled from, *)
(* no external link is taken from another page.                            *)
(***************************************************************************)
C9_ExternalFallback ==
    ResolvedOk =>
        /\ ~res.pulled_from_english =>
             /\ {d \in FirstExternal(WalkLinks(MasterFamily)) : d[1] \notin SeedTags}
                    \subseteq Entries(res)
             /\ \A d \in FirstExternal(WalkLinks(MasterFamily)) : d[1] \in Range(res.tags)
        /\ res.pulled_from_english =>
             \A i \in 1..Len(res.src) :
                /\ res.src[i].step # "external"
                /\ (is_external_tag(res.tags[i]) /\ res.src[i].step # "seed")
                      => res.src[i].page = EnTitle

\* nothing was pulled from the English page, and two declarations of one
\* external tag with different titles are met on the walk
C9_Witness ==
    /\ ResolvedOk
    /\ ~res.pulled_from_english
    /\ \E i \in 1..Len(res.src) : res.src[i].step = "external"
    /\ \E j, k \in 1..Len(WalkLinks(MasterFamily)) :
         /\ j < k
         /\ WalkLinks(MasterFamily)[j].lang = WalkLinks(MasterFamily)[k].lang
         /\ WalkLinks(MasterFamily)[j].star # WalkLinks(MasterFamily)[k].star
         /\ is_external_tag(WalkLinks(MasterFamily)[j].lang)
         /\ WalkLinks(MasterFamily)[j].lang \notin SeedTags

(***************************************************************************)
(* Vocabulary of C10.                                                      *)
(***************************************************************************)
\* a non-English member page other than the master declares an internal
\* link to the master page
LinkedFromMember ==
    \E p \in PageTitlesOf(MasterFamily) :
        /\ p # res.master
        /\ TagOf(p) # "en"
        /\ \E k \in 1..Len(LinksOf(p)) :
             /\ is_internal_tag(LinksOf(p)[k].lang)
             /\ full_title_of(LinksOf(p)[k].lang,
                              detect_language(title_from_langlink(LinksOf(p)[k]))[1])
                  = res.master

\* the external links of the master page (first declaration per tag) whose
\* tag no other member declares, nor carries as the tag of its own title
OwnExternal ==
    { d \in FirstExternal(LinksOf(res.master)) :
        /\ d[1] \notin SeedTags
        /\ \A p \in PageTitlesOf(MasterFamily) \ {res.master} :
             \A k \in 1..Len(LinksOf(p)) : LinksOf(p)[k].lang # d[1] }

(***************************************************************************)
(* C10 as stated: in a family where a non-English page P declares an       *)
(* internal link to page Q and Q carries external links no other member    *)
(* declares, the result for Q includes those external links.               *)
(***************************************************************************)
C10_Original ==
    (ResolvedOk /\ LinkedFromMember) => OwnExternal \subseteq Entries(res)

(***************************************************************************)
(* C10  amended: in a family where a non-English page P declares an        *)
(* internal link to page Q and Q carries external links no other member    *)
(* declares, the result for Q includes those external links if Q is the    *)
(* English page or nothing was pulled from the English page; when another  *)
(* page is the English page that was pulled from, the result holds for     *)
(* such a tag only what the English page declares.                         *)
(***************************************************************************)
C10_Precedence ==
    (ResolvedOk /\ LinkedFromMember) =>
        /\ (TagOf(res.master) = "en" \/ ~res.pulled_from_english) =>
              OwnExternal \subseteq Entries(res)
        /\ (TagOf(res.master) # "en" /\ res.pulled_from_english) =>
              \A d \in OwnExternal :
                 d \in Entries(res) => d \in FirstExternal(LinksOf(EnTitle))

\* Q is not English, nothing is pulled from an English page, and an
\* external link that only Q declares is in the result
C10_Witness ==
    /\ ResolvedOk
    /\ LinkedFromMember
    /\ TagOf(res.master) # "en"
    /\ ~res.pulled_from_english
    /\ \E d \in OwnExternal : d \in Entries(res)

(***************************************************************************)
(* C11 as stated: after the raw langlinks of every page of a family were   *)
(* replaced by the page's own _get_langlinks output, _get_langlinks gives  *)
(* every page of the family the same set of (tag, title) pairs again, and  *)
(* _needs_update is false for every page.                                  *)
(***************************************************************************)
C11_Idempotent ==
    res.op = "update_family" =>
        \A t \in DOMAIN res.links :
            /\ get_langlinks(t).raised = "none"
            /\ Range(get_langlinks(t).links) = Range(res.links[t])
            /\ ~needs_update(allpages[PageOf(t)], get_langlinks(t).links)

(***************************************************************************)
(* C12  _get_langlinks(full_title) returns exactly the (tag, title) pairs  *)
(* of _titles_in_family(full_title) without the pair of full_title itself, *)
(* as a list in strictly ascending order of tag.                           *)
(***************************************************************************)
C12_SortedMinusSelf ==
    (res.op = "get_langlinks" /\ res.title \in DOMAIN family_index) =>
        LET r == titles_in_family(res.title, 1)
        IN  /\ res.raised = "none"
            /\ Range(res.links) = Entries(r) \ {<<TagOf(res.title), BaseOf(res.title)>>}
            /\ Len(res.links) = Len(r.tags) - 1
            /\ \A i, j \in 1..Len(res.links) :
                 i < j => TagRank(res.links[i][1]) < TagRank(res.links[j][1])

\* two pairs are returned in another order than they were pulled in
C12_Witness ==
    /\ res.op = "get_langlinks"
    /\ res.raised = "none"
    /\ Len(res.links) >= 2
    /\ LET r == titles_in_family(res.title, 1)
       IN  \E i, j \in 1..Len(r.tags) :
              /\ i < j
              /\ r.tags[i] # TagOf(res.title)
              /\ r.tags[j] # TagOf(res.title)
              /\ TagRank(r.tags[j]) < TagRank(r.tags[i])

(***************************************************************************)
(* C13  _needs_update(page, new_links) is true exactly when the set of     *)
(* new_links differs from the set of (lang, title) pairs recorded on the   *)
(* page, the recorded set being empty for a page without langlinks; order  *)
(* and repetition of the recorded links do not matter.                     *)
(***************************************************************************)
C13_SetComparison ==
    res.op = "needs_update" =>
        LET recorded == IF "langlinks" \in DOMAIN res.page
                        THEN {<<res.page.langlinks[i].lang, res.page.langlinks[i].star>> :
                                i \in 1..Len(res.page.langlinks)}
                        ELSE {}
        IN  res.result <=> (Range(res.langlinks_new) # recorded)

\* the page records a link twice and in another order than new_links, and
\* needs no update
C13_Witness ==
    /\ res.op = "needs_update"
    /\ ~res.result
    /\ "langlinks" \in DOMAIN res.page
    /\ Len(res.page.langlinks) > Len(res.langlinks_new)
    /\ Len(res.langlinks_new) >= 2
    /\ res.langlinks_new[1] # <<res.page.langlinks[1].lang, res.page.langlinks[1].star>>

(***************************************************************************)
(* Vocabulary of the properties of grouping.                               *)
(***************************************************************************)
IndexTitles == Range(wrapped(allpages))

\* the titles of the index whose language has an interlanguage tag
Eligible == {t \in IndexTitles : is_interlanguage_tag(TagOf(t))}

\* the eligible titles with the same base title as t, case ignored
RunOf(t) == {u \in Eligible : lower(BaseOf(u)) = lower(BaseOf(t))}

\* two titles of T are in the same language
TagCollision(T) == \E u, v \in T : u # v /\ TagOf(u) = TagOf(v)

\* the places (key, position) at which a family holds the title t
PlacesOf(t) ==
    {kj \in UNION {{<<k, j>> : j \in 1..Len(families[k])} : k \in DOMAIN families} :
        families[kj[1]][kj[2]].title = t}

(***************************************************************************)
(* C14  After build_graph the families partition the eligible pages: a     *)
(* page whose language has an interlanguage tag is a member of exactly one *)
(* family (once), any other page is a member of none, every member is a    *)
(* page of the index, and family_index maps a title to k exactly when the  *)
(* page is a member of families[k].                                        *)
(***************************************************************************)
C14_Partition ==
    stage = "built" =>
        /\ \A t \in IndexTitles :
             Cardinality(PlacesOf(t)) = IF t \in Eligible THEN 1 ELSE 0
        /\ \A k \in DOMAIN families :
             /\ families[k] # <<>>
             /\ \A j \in 1..Len(families[k]) : families[k][j] \in Range(allpages)
        /\ DOMAIN family_index = Eligible
        /\ \A t \in Eligible : \A k \in DOMAIN families :
             family_index[t] = k <=> t \in FamilyTitles(families, k)

\* two families and a page in a language without interlanguage links
C14_Witness ==
    /\ stage = "built"
    /\ Cardinality(DOMAIN families) >= 2
    /\ IndexTitles \ Eligible # {}
    /\ \E k \in DOMAIN families : Len(families[k]) >= 2

(***************************************************************************)
(* C15  In every family _group_into_families returns, the member pages     *)
(* have pairwise distinct language tags.                                   *)
(***************************************************************************)
C15_DistinctTags ==
    stage = "built" =>
        \A k \in DOMAIN families :
            \A i, j \in 1..Len(families[k]) :
                i # j => TagOf(families[k][i].title) # TagOf(families[k][j].title)

\* two pages of one language whose base titles differ by case only were
\* grouped, and a family of two pages exists
C15_Witness ==
    /\ stage = "built"
    /\ \E t \in Eligible : TagCollision(RunOf(t))
    /\ \E k \in DOMAIN families : Len(families[k]) >= 2

C17_Original ==
    stage = "built" =>
        \A t, u \in Eligible :
            (/\ TagOf(t) # TagOf(u)
             /\ BaseOf(t) # BaseOf(u)
             /\ lower(BaseOf(t)) = lower(BaseOf(u))) =>
                /\ family_index[t] = BaseOf(t)
                /\ family_index[u] = BaseOf(u)

(***************************************************************************)
(* C17  amended: two pages in the same language whose base titles are      *)
(* equal with case ignored, but not equal, are placed in two families      *)
(* keyed by their case-sensitive base titles; two such pages in different  *)
(* languages are members of one family keyed by the lower-cased base       *)
(* title, unless two pages of their run share a language.                  *)
(***************************************************************************)
C17_CaseCollision ==
    stage = "built" =>
        \A t, u \in Eligible :
            (BaseOf(t) # BaseOf(u) /\ lower(BaseOf(t)) = lower(BaseOf(u))) =>
                IF TagOf(t) = TagOf(u) \/ TagCollision(RunOf(t))
                THEN /\ family_index[t] = BaseOf(t)
                     /\ family_index[u] = BaseOf(u)
                     /\ family_index[t] # family_index[u]
                ELSE /\ family_index[t] = lower(BaseOf(t))
                     /\ family_index[u] = family_index[t]

\* "Fish" and "FiSH", both English, are in two families
C17_Witness ==
    /\ stage = "built"
    /\ {<<"Fish">>, <<"FiSH">>} \subseteq Eligible
    /\ family_index[<<"Fish">>] = <<"Fish">>
    /\ family_index[<<"FiSH">>] = <<"FiSH">>

AfterInternalPull ==
    pull_from_pages(seed_pages(EmptyLists, MasterFamily, 1), MasterFamily, "internal", 1)

\* "en" is in the bijection but no page of the index has its title
EnglishPageMissing ==
    /\ "en" \in Range(AfterInternalPull.tags)
    /\ AfterInternalPull.titles[IndexOf(AfterInternalPull.tags, "en")] \notin IndexTitles

(***************************************************************************)
(* C19 as stated: if "en" is in the bijection but the English page is      *)
(* absent from the page index, _titles_in_family skips the English         *)
(* bridging step and still returns a result.                               *)
(***************************************************************************)
C19_Recoverable ==
    (ResolvedIndexed /\ EnglishPageMissing) => res.raised = "none"

(***************************************************************************)
(* Vocabulary of C20.                                                      *)
(***************************************************************************)
\* the partial results yielded for the title t, in yield order
PartialsOf(t) == SelectSeq(res.yields, LAMBDA page : page.title = t)

\* the value of key k in the latest dict of ds that has the key
Latest(ds, k) ==
    ds[CHOOSE i \in 1..Len(ds) :
            /\ k \in DOMAIN ds[i]
            /\ \A j \in (i + 1)..Len(ds) : k \notin DOMAIN ds[j]][k]

\* the lists under key k of the dicts of ds, one after the other
RECURSIVE Concatenated(_, _)
Concatenated(ds, k) ==
    IF ds = <<>> THEN <<>>
    ELSE (IF k \in DOMAIN Head(ds) THEN Head(ds)[k] ELSE <<>>) \o Concatenated(Tail(ds), k)

KeysOf(ds) == UNION {DOMAIN ds[i] : i \in 1..Len(ds)}

\* the dicts under key k of the dicts of ds that have the key
Under(ds, k) ==
    LET having == SelectSeq(ds, LAMBDA d : k \in DOMAIN d)
    IN  [i \in 1..Len(having) |-> having[i][k]]

(***************************************************************************)
(* C20  When the generator yields several partial results for one title,   *)
(* the entry of the page index for the title is their deep union in yield  *)
(* order: it has the keys of all of them, its langlinks are the langlinks  *)
(* of the partial results concatenated (no declared link is lost), a       *)
(* nested mapping is merged key by key, and a scalar has the value of the  *)
(* latest partial result that carries it.                                  *)
(***************************************************************************)
C20_DeepUnion ==
    res.op = "build_graph" =>
        /\ IndexTitles = {res.yields[i].title : i \in 1..Len(res.yields)}
        /\ NoDuplicates(wrapped(allpages))
        /\ \A n \in 1..Len(allpages) :
             LET entry == allpages[n]
                 parts == PartialsOf(entry.title)
             IN  /\ DOMAIN entry = KeysOf(parts)
                 /\ \A k \in DOMAIN entry :
                      IF k = "langlinks" THEN entry[k] = Concatenated(parts, k)
                      ELSE IF k = "pageprops"
                      THEN /\ DOMAIN entry[k] = KeysOf(Under(parts, k))
                           /\ \A x \in DOMAIN entry[k] :
                                entry[k][x] = Latest(Under(parts, k), x)
                      ELSE entry[k] = Latest(parts, k)

\* three partial results for one title: two of them carry langlinks, two
\* carry different scalars, two carry nested mappings with different keys
C20_Witness ==
    /\ res.op = "build_graph"
    /\ \E n \in 1..Len(allpages) :
         LET parts == PartialsOf(allpages[n].title)
         IN  /\ Len(parts) = 3
             /\ {"langlinks", "pageprops", "touched"} \subseteq DOMAIN allpages[n]
             /\ Len(allpages[n].langlinks) >= 2
             /\ allpages[n].langlinks[1] # allpages[n].langlinks[2]
             /\ "touched" \in DOMAIN parts[1]
             /\ "pageprops" \in DOMAIN parts[2] /\ "pageprops" \in DOMAIN parts[3]
             /\ allpages[n].pageprops # parts[3].pageprops
             /\ allpages[n].pageprops # parts[2].pageprops

(***************************************************************************)
(* C21  Resolution is read-only: a call of _titles_in_family or of         *)
(* _get_langlinks leaves the redirect map, the page index, the family      *)
(* table and the family index as they were, and what it returned is what   *)
(* a further resolution of the same title against the index returns (the   *)
(* same pairs in the same order).                                          *)
(***************************************************************************)
\* the recorded outcome is the outcome of resolving the same title now
SameAgain ==
    /\ res.op = "resolve" => res = titles_in_family(res.master, 1)
    /\ res.op = "get_langlinks" => res = get_langlinks(res.title)

C22_EditOnlyWhenNeeded ==
    res.op = "update_page" =>
        LET supported == is_interlanguage_tag(TagOf(res.title))
            fresh == get_langlinks(res.title)
        IN  /\ res.edit # None =>
                  /\ supported
                  /\ res.langlinks = fresh
                  /\ fresh.raised = "none"
                  /\ needs_update(allpages[PageOf(res.title)], fresh.links)
                  /\ res.edit.text.interlinks = fresh.links
            /\ ~supported =>
                  /\ res.outcome \in {"skipped_switch", "skipped_noinclude",
                                       "skipped_language"}
                  /\ res.langlinks = None
                  /\ res.raised = "none"
                  /\ res.edit = None
            /\ (supported /\ fresh.raised = "none" /\ res.title \in IndexTitles
                    /\ ~needs_update(allpages[PageOf(res.title)], fresh.links)) =>
                  res.edit = None

\* an edit that replaces a recorded link block by another one
C22_Witness ==
    /\ res.op = "update_page"
    /\ res.edit # None
    /\ Len(res.edit.text.interlinks) >= 1
    /\ Len(langlinks_old(allpages[PageOf(res.title)])) >= 1

\* a page of an unsupported language skipped for its language
C22_WitnessSkipped ==
    res.op = "update_page" /\ res.outcome = "skipped_language"

\* a page of a supported language other than English that is up to date
C22_WitnessUpToDate ==
    /\ res.op = "update_page"
    /\ res.outcome = "up_to_date"
    /\ TagOf(res.title) = "cs"

(***************************************************************************)
(* C23  Wherever a title is looked up, the page index is sorted ascending  *)
(* by title with at most one entry per title: before and after every       *)
(* iteration of the fetch-merge loop (an iteration adds at most one entry, *)
(* for the title it was given), and once build_graph has returned, the     *)
(* sort by family key inside the grouping being undone by the sort by      *)
(* title.                                                                  *)
(***************************************************************************)
SortedByTitle(pages) ==
    \A i, j \in 1..Len(pages) :
        i < j => StrRank(pages[i].title) < StrRank(pages[j].title)

C23_SortedIndex ==
    /\ res.op = "build_graph" =>
          \A n \in 0..(Len(res.yields) - 1) :
              LET before == get_allpages(SubSeq(res.yields, 1, n), <<>>)
                  after == get_allpages_step(before, res.yields[n + 1])
              IN  /\ SortedByTitle(before)
                  /\ SortedByTitle(after)
                  /\ Len(after) <= Len(before) + 1
                  /\ PageTitlesOf(after) =
                        PageTitlesOf(before) \cup {res.yields[n + 1].title}
    /\ stage = "built" => SortedByTitle(allpages)

\* build_graph returned for an index that the sort by family key puts in
\* another order than the sort by title
C23_Witness ==
    /\ res.op = "build_graph"
    /\ stage = "built"
    /\ Len(allpages) >= 3
    /\ sort_by_family_key(allpages, FALSE) # allpages

\* a fetch-merge loop that replaced an entry it found
C23_WitnessMerge ==
    /\ res.op = "build_graph"
    /\ stage = "built"
    /\ Len(allpages) >= 2
    /\ Len(res.yields) > Len(allpages)

(***************************************************************************)
(* C24  In every family of the family table the member pages are listed    *)
(* in ascending order of their full titles.                                *)
(***************************************************************************)
C24_MembersAscending ==
    /\ stage = "built" => \A k \in DOMAIN families : SortedByTitle(families[k])
    \* the entries a resolution took from the family's own pages come from
    \* pages of ascending title
    /\ ResolvedOk =>
          \A i, j \in 1..Len(res.src) :
              (/\ i < j
               /\ res.src[i].step = res.src[j].step
               /\ res.src[i].step \in {"seed", "internal", "external"}
               /\ {res.src[i].page, res.src[j].page} \subseteq PageTitlesOf(MasterFamily)
               /\ res.nested = <<>>)
              => StrRank(res.src[i].page) <= StrRank(res.src[j].page)

\* two families of two pages each that a case-sensitive regrouping made out
\* of one run of four
C24_Witness ==
    /\ stage = "built"
    /\ \E k1, k2 \in DOMAIN families :
         /\ k1 # k2
         /\ lower(k1) = lower(k2)
         /\ Len(families[k1]) = 2
         /\ Len(families[k2]) = 2

(***************************************************************************)
(* C25  A raw link with an internal tag whose rebuilt full title is a key  *)
(* of the redirect map enters the bijection with the base title of the     *)
(* redirect target (fragment stripped) under the tag the link declares,    *)
(* and is accepted on the strength of that target: the target is a page of *)
(* the index.  A raw link with an external tag keeps its own title.        *)
(***************************************************************************)
\* the full title rebuilt from a raw link, canonicalized
Rebuilt(raw) ==
    canonicalize(IF langname_for_tag(raw.lang) = "English" THEN raw.star
                 ELSE Append(raw.star, langname_for_tag(raw.lang)))

C25_RedirectTarget ==
    ResolvedOk =>
        \A i \in 1..Len(res.src) :
            res.src[i].step # "seed" =>
                LET raw == res.src[i].raw
                IN  /\ (is_internal_tag(raw.lang) /\ Rebuilt(raw) \in DOMAIN redirects) =>
                          /\ res.titles[i] = BaseOf(redirects[Rebuilt(raw)].page)
                          /\ res.tags[i] = raw.lang
                          /\ redirects[Rebuilt(raw)].page \in IndexTitles
                    /\ is_external_tag(raw.lang) => res.titles[i] = raw.star

(***************************************************************************)
(* C26  Whenever "en" is in the bijection after the seed and internal-link *)
(* pass, the title stored for "en" is the title of a page of the index and *)
(* a key of the family index, so neither the lookup of the English page    *)
(* nor the nested resolution raises IndexError or KeyError.                *)
(***************************************************************************)
C26_EnglishPageIndexed ==
    (ResolvedIndexed /\ "en" \in Range(AfterInternalPull.tags)) =>
        LET en_title == AfterInternalPull.titles[IndexOf(AfterInternalPull.tags, "en")]
        IN  /\ en_title \in IndexTitles
            /\ en_title \in DOMAIN family_index
            /\ res.raised \notin {"IndexError", "KeyError"}

(***************************************************************************)
(* C27  For every title of the family index the pair (own tag, own base    *)
(* title) is in the set _titles_in_family resolved, so the removal in      *)
(* _get_langlinks never raises KeyError, and the list returned holds no    *)
(* entry with the page's own tag.                                          *)
(***************************************************************************)
C27_OwnPairResolved ==
    (res.op = "get_langlinks" /\ res.title \in DOMAIN family_index) =>
        LET r == titles_in_family(res.title, 1)
        IN  /\ res.raised # "KeyError"
            /\ r.raised = "none" =>
                  /\ <<TagOf(res.title), BaseOf(res.title)>> \in Range(zip(r.tags, r.titles))
                  /\ res.raised = "none"
                  /\ \A i \in 1..Len(res.links) : res.links[i][1] # TagOf(res.title)
                  /\ Len(res.links) = Len(r.tags) - 1

\* the links of a page that is not English, in a family of two pages
C27_Witness ==
    /\ res.op = "get_langlinks"
    /\ res.raised = "none"
    /\ TagOf(res.title) = "cs"
    /\ Len(res.links) >= 1

(***************************************************************************)
(* Vocabulary of C28.                                                      *)
(***************************************************************************)
\* the load and update calls the latest access made
ThisAccess ==
    SubSeq(cachedb.calls, cachedb.last.calls_before + 1, Len(cachedb.calls))

CallsOf(calls, fn) == {i \in 1..Len(calls) : calls[i].fn = fn}

\* load is called only while data is None, at most once by an access, and
\* never again once a load has set the data
LoadOnlyWhileNone ==
    /\ \A i \in CallsOf(cachedb.calls, "load") :
          cachedb.calls[i].data_before = "None"
    /\ Cardinality(CallsOf(ThisAccess, "load")) <= 1
    /\ cachedb.last.data_before # "None" => CallsOf(ThisAccess, "load") = {}
    /\ \A i, j \in CallsOf(cachedb.calls, "load") :
          i < j => cachedb.calls[i].data_after = "None"

\* reading a meta attribute calls nothing and yields the value of the name
\* in meta, None for a name meta does not hold
MetaReadCallsNothing ==
    cachedb.last.op = "__getattr__" =>
        /\ ThisAccess = <<>>
        /\ cachedb.last.result = meta_get(cachedb.meta, cachedb.last.name)
        /\ cachedb.last.name \notin DOMAIN cachedb.meta => cachedb.last.result = "None"

C28_WitnessUnknown ==
    /\ cachedb.last.op = "__getattr__"
    /\ cachedb.last.name = "unknown"
    /\ cachedb.data # "None"

(***************************************************************************)
(* C29  In ParserCache.update every page id of a non-negative namespace    *)
(* is put in the invalidated set and its rows are deleted in pass 1,       *)
(* before any page is parsed in pass 2; pass 2 parses a page only if its   *)
(* id is in the invalidated set and its revision has content, and parses   *)
(* no page twice.                                                          *)
(***************************************************************************)
LogOf(stmt) == {i \in 1..Len(parser_cache.log) : parser_cache.log[i].stmt = stmt}

C29_TwoPasses ==
    parser_cache.updates > 0 =>
        LET log == parser_cache.log
            invalidated == parser_cache.invalidated_pageids
        IN  /\ invalidated = {id \in parser_cache.pass1 : PageNs[id] >= 0}
            /\ {log[i].pageid : i \in LogOf("add")} = invalidated
            /\ \E d \in LogOf("delete") :
                  /\ LogOf("delete") = {d}
                  /\ log[d].pageid = invalidated
                  /\ \A i \in LogOf("add") : i < d
                  /\ \A i \in LogOf("parse") : d < i
            /\ \A i \in LogOf("parse") :
                  /\ log[i].pageid \in invalidated
                  /\ log[i].pageid \in parser_cache.content
                  /\ \A j \in LogOf("parse") : log[j].pageid = log[i].pageid => i = j
            /\ parser_cache.rows \cap invalidated = {log[i].pageid : i \in LogOf("parse")}

\* a second update that deleted the rows of a page parsed by the first,
\* parsed one page, left out a page that pass 1 had not seen and one
\* without content, with a page of a negative namespace in the database
C29_Witness ==
    /\ parser_cache.updates = 2
    /\ Cardinality(LogOf("parse")) = 1
    /\ Cardinality(LogOf("error")) = 1
    /\ parser_cache.invalidated_pageids \ parser_cache.rows # {}
    /\ (parser_cache.content \cap {id \in PageIds : PageNs[id] >= 0})
            \ parser_cache.invalidated_pageids # {}
    /\ \E id \in parser_cache.pass1 : PageNs[id] < 0
    /\ parser_cache.rows \ parser_cache.invalidated_pageids # {}

(***************************************************************************)
(* C30  gen_update yields its statements in a fixed order: one insert per  *)
(* recent change listed from the given timestamp on, then one              *)
(* patrolled-flag update per log event whose type and action are both      *)
(* "patrol" (none for other log events), and last exactly one delete with  *)
(* the cutoff of the oldest recent change; the delete never comes before   *)
(* an insert or an update.                                                 *)
(***************************************************************************)
IsPatrol(le) == le.type = "patrol" /\ le.action = "patrol"

\* what the generator hands out in all, from the two lists of the API
AllStatements ==
    LET patrols == SelectSeq(grabber.le_list, IsPatrol)
    IN  [i \in 1..Len(grabber.rc_list) |->
            [stmt |-> "insert", rc_id |-> grabber.rc_list[i].rcid]]
        \o [i \in 1..Len(patrols) |->
            [stmt |-> "update-patrolled", revid |-> patrols[i].curid]]
        \o <<[stmt |-> "delete", rc_cutoff_timestamp |-> oldest_recent_change]>>

C30_StatementOrder ==
    grabber.phase # "idle" =>
        LET y == grabber.yielded
        IN  /\ Len(y) <= Len(AllStatements)
            /\ y = SubSeq(AllStatements, 1, Len(y))
            /\ grabber.phase \in {"delete", "exhausted"} <=> y = AllStatements
            /\ \A i, j \in 1..Len(y) :
                  (y[i].stmt = "delete" /\ i # j) => j < i /\ y[j].stmt # "delete"
            /\ \A i, j \in 1..Len(y) :
                  (y[i].stmt = "update-patrolled" /\ y[j].stmt = "insert") => j < i

\* an exhausted generator that gave two inserts, one update and the delete,
\* and passed over a log event that is not a patrol
C30_Witness ==
    /\ grabber.phase = "exhausted"
    /\ Len(grabber.yielded) = 4
    /\ grabber.yielded[3].stmt = "update-patrolled"
    /\ Len(grabber.le_list) = 2
    /\ grabber.le_list[1].action = "autopatrol"

====
